---- MODULE Spec2Model ----
(***************************************************************************)
(* Model of cmdlapp.CmdlApp (src/cmdlapp/cmdlapp.py): the configuration    *)
(* setter, and the run() lifecycle with the SIGHUP reload handler that the *)
(* Python runtime executes in the main thread, on top of whatever frame    *)
(* the main flow is in.                                                    *)
(***************************************************************************)
EXTENDS Integers, Sequences, FiniteSets, TLC

VARIABLES
    attrs,      \* the instance attributes set through configure()
    args,       \* self.args: <<>> before parse_args, <<namespace>> after
    cfg,        \* self.cfg: <<>> while the attribute is not set, <<doc>> after
    sigdisp,    \* disposition of SIGHUP: "SIG_DFL" or "sighup_handler"
    loglevel,   \* threshold given to logging.basicConfig, "unset" before
    log,        \* the records emitted so far
    file,       \* the config file on disk
    stack,      \* the frames of the main thread, run() at the bottom
    status,     \* "init", "running", "exited" or "killed"
    exitcode,   \* exit status of the process once status = "exited"
    exc,        \* the exception raised last, <<>> when none was
    escaped,    \* the exceptions that have propagated out of sighup_handler
    mainCalls,  \* number of invocations of main_fct
    nHup,       \* SIGHUP signals delivered so far
    nInt,       \* SIGINT signals delivered so far
    call,       \* history: the last configure() call, <<>> when none was made
    steps,      \* history: the steps of run() completed so far, in order
    loadFailed, \* history: the callers whose load_cfgfile reached its except clause
    nNoop,      \* history: SIGHUP deliveries whose handler returned without reloading
    sys_argv,   \* history: the command line parse_args was given, <<>> before
    hook,       \* the on_reload method of the instance: of CmdlApp or of a subclass
    loads       \* history of load_cfgfile: the content read last, the value
                \* assigned last, and the loads in a row without a file change

vars == <<attrs, args, cfg, sigdisp, loglevel, log, file, stack, status,
          exitcode, exc, escaped, mainCalls, nHup, nInt, call, steps, loadFailed,
          nNoop, sys_argv, hook, loads>>

----------------------------------------------------------------------------
(* Bounds *)

MaxKw == 2          \* keyword arguments in one configure() call
MaxHup == 1         \* SIGHUP deliveries in one run (each may interrupt any frame)
MaxInt == 1         \* SIGINT deliveries in one run
NumDocs == 2        \* distinct well-formed contents of the config file

----------------------------------------------------------------------------
(* Configuration setter *)

cfg_keys == {"main_fct", "has_cfgfile", "reload_on_hup", "tool_name", "tool_version"}

\* keyword names a caller may pass: the recognized ones and two that are not
\* ('use_cfgfile' is the name the docstring of configure gives)
KwNames == cfg_keys \cup {"use_cfgfile", "cfgfile"}

ToolNames == {"CmdlApp", "CmdlAppExample"}
ToolVersions == {"0.0-dev", "0.1beta"}
\* the work function: the default of the class, or the override of a subclass
\* (as Example.main_fct), which is user code that may call configure(), raise,
\* return or keep running
MainFcts == {"CmdlApp.main_fct", "Subclass.main_fct"}

\* the values a caller may give for each keyword
KwValues ==
    [main_fct |-> MainFcts, has_cfgfile |-> BOOLEAN, reload_on_hup |-> BOOLEAN,
     tool_name |-> ToolNames, tool_version |-> ToolVersions,
     use_cfgfile |-> {TRUE}, cfgfile |-> {TRUE}]

\* the filler of the keywords a mapping does not hold
KwDefault ==
    [main_fct |-> "CmdlApp.main_fct", has_cfgfile |-> FALSE, reload_on_hup |-> FALSE,
     tool_name |-> "CmdlApp", tool_version |-> "0.0-dev",
     use_cfgfile |-> TRUE, cfgfile |-> TRUE]

Range(s) == {s[i] : i \in 1..Len(s)}

\* the key orders of a keyword mapping: distinct names, in iteration order
KwOrders == {s \in UNION {[1..n -> KwNames] : n \in 0..MaxKw} :
                \A i, j \in 1..Len(s) : i # j => s[i] # s[j]}

KwDom(k, keys) == IF k \in Range(keys) THEN KwValues[k] ELSE {KwDefault[k]}

\* the values of a keyword mapping with the given keys
KwGiven(keys) ==
    [main_fct : KwDom("main_fct", keys), has_cfgfile : KwDom("has_cfgfile", keys),
     reload_on_hup : KwDom("reload_on_hup", keys), tool_name : KwDom("tool_name", keys),
     tool_version : KwDom("tool_version", keys), use_cfgfile : KwDom("use_cfgfile", keys),
     cfgfile : KwDom("cfgfile", keys)]

ValueError(key) == [type |-> "ValueError", arg |-> key]

\* the loop of configure from the i-th key on: validate, then setattr
RECURSIVE configure_from(_, _, _, _)
configure_from(self, keys, given, i) ==
    IF i > Len(keys) THEN [attrs |-> self, raised |-> <<>>]
    ELSE IF keys[i] \notin cfg_keys
         THEN [attrs |-> self, raised |-> <<ValueError(keys[i])>>]
         ELSE configure_from([self EXCEPT ![keys[i]] = given[keys[i]]], keys, given, i + 1)

\* as configure, but leaving the loop after the first key
configure_first_only(self, keys, given) ==
    configure_from(self, SubSeq(keys, 1, IF Len(keys) > 0 THEN 1 ELSE 0), given, 1)

\* as configure, but validating every key before any is applied
configure_validate_first(self, keys, given) ==
    IF \E i \in 1..Len(keys) : keys[i] \notin cfg_keys
    THEN [attrs |-> self,
          raised |-> <<ValueError(keys[CHOOSE i \in 1..Len(keys) :
                                          /\ keys[i] \notin cfg_keys
                                          /\ \A j \in 1..(i - 1) : keys[j] \in cfg_keys])>>]
    ELSE configure_from(self, keys, given, 1)

configure(self, keys, given) == configure_from(self, keys, given, 1)

\* CmdlApp.__init__: the defaults (main_fct is the method of the class)
DefaultAttrs ==
    configure([main_fct |-> "CmdlApp.main_fct", has_cfgfile |-> FALSE,
               reload_on_hup |-> FALSE, tool_name |-> "CmdlApp",
               tool_version |-> "0.0-dev"],
              <<"has_cfgfile", "reload_on_hup", "tool_name", "tool_version">>,
              KwDefault).attrs

----------------------------------------------------------------------------
(* Values *)

Docs == 1..NumDocs

\* the config file: missing, not parseable as YAML, or holding document doc
Files == {[kind |-> "missing", doc |-> 0], [kind |-> "malformed", doc |-> 0]}
            \cup {[kind |-> "yaml", doc |-> d] : d \in Docs}

Frame(fn, pc, val) == [fn |-> fn, pc |-> pc, val |-> val]

Top == stack[Len(stack)]
Pop(st) == SubSeq(st, 1, Len(st) - 1)
SetPc(st, pc) == [st EXCEPT ![Len(st)].pc = pc]

KeyboardInterrupt == [type |-> "KeyboardInterrupt", arg |-> ""]
AttributeError(name) == [type |-> "AttributeError", arg |-> name]
SystemExit(code) == [type |-> "SystemExit", arg |-> code]
LoadError(kind) == [type |-> IF kind = "missing" THEN "FileNotFoundError" ELSE "YAMLError",
                    arg |-> "cfg.yaml"]

\* what main_fct of a subclass may raise on its own
UserExceptions == {[type |-> "Exception", arg |-> ""], SystemExit("0")}

\* exit status of the interpreter when e propagates out of the main module
ExitStatus(e) ==
    IF e.type = "SystemExit"
    THEN CASE e.arg = "0" -> 0
           [] e.arg = "2" -> 2
           [] OTHER -> 1
    ELSE 1

----------------------------------------------------------------------------
(* Logging *)

LevelNo(level) ==
    CASE level = "DEBUG" -> 10
      [] level = "INFO" -> 20
      [] level = "WARNING" -> 30
      [] level = "ERROR" -> 40
      [] OTHER -> 30     \* logging not configured: the root logger's WARNING

Record(level, msg, arg, tb) == [level |-> level, msg |-> msg, arg |-> arg, tb |-> tb]

\* logging.info / logging.error / logging.exception under threshold th
Emit(lg, th, rec) == IF LevelNo(rec.level) >= LevelNo(th) THEN Append(lg, rec) ELSE lg

info(lg, th, msg, arg) == Emit(lg, th, Record("INFO", msg, arg, FALSE))
error(lg, th, msg, arg) == Emit(lg, th, Record("ERROR", msg, arg, FALSE))
exception(lg, th, msg, arg) == Emit(lg, th, Record("ERROR", msg, arg, TRUE))

----------------------------------------------------------------------------
(* Exception propagation *)

\* the statements of load_cfgfile inside its try block
TryLoadPcs == {"load_read", "load_assign"}

\* Propagation of an exception raised in the top frame of st: it stops at the
\* bare except of load_cfgfile when the frame is inside that try block (by is
\* then the caller of load_cfgfile), at the except clauses of run() when the
\* frame is run() calling main_fct, and otherwise leaves the frame and
\* continues in the frame below.
RECURSIVE Unwind(_, _, _)
Unwind(st, e, esc) ==
    IF st = <<>> THEN [stack |-> st, escaped |-> esc, by |-> "none"]
    ELSE LET top == st[Len(st)] IN
         IF top.pc \in TryLoadPcs
         THEN [stack |-> SetPc(st, "load_except"), escaped |-> esc, by |-> top.fn]
         ELSE IF top.fn = "run" /\ top.pc = "main"
         THEN [stack |-> Pop(st), escaped |-> esc, by |-> "main_fct"]
         ELSE Unwind(Pop(st), e,
                     IF top.fn = "sighup_handler" THEN esc \cup {e} ELSE esc)

\* as RunExcept, but with a failure of main_fct passed over in silence
RunExcept_silent(lg, e) ==
    IF e.type = "KeyboardInterrupt"
    THEN info(lg, loglevel, "Terminating due to Ctrl-C. Good bye.", <<>>)
    ELSE lg

\* the except clauses of run(): a message, and run() returns
RunExcept(lg, e) ==
    IF e.type = "KeyboardInterrupt"
    THEN info(lg, loglevel, "Terminating due to Ctrl-C. Good bye.", <<>>)
    ELSE exception(lg, loglevel, "Main function failed.", <<>>)

\* history: of the frames in c, those that still hold a document they read
StillRead(c, st) == {i \in c : i <= Len(st) /\ st[i].pc = "load_assign"}

\* e is raised in the top frame, lg being the log at that point
Raise(e, lg) ==
    LET u == Unwind(stack, e, escaped) IN
    /\ exc' = <<e>>
    /\ stack' = u.stack
    /\ escaped' = u.escaped
    /\ log' = IF u.by = "main_fct" THEN RunExcept(lg, e) ELSE lg
    /\ status' = IF u.stack = <<>> THEN "exited" ELSE status
    /\ exitcode' = IF u.stack # <<>> THEN exitcode
                   ELSE IF u.by = "main_fct" THEN 0 ELSE ExitStatus(e)
    /\ loadFailed' = IF u.by \in {"run", "sighup_handler"}
                     THEN loadFailed \cup {u.by} ELSE loadFailed
    /\ loads' = [loads EXCEPT !.clean = StillRead(@, u.stack)]

\* the top frame returns normally
Return(lg) ==
    /\ stack' = Pop(stack)
    /\ log' = lg
    /\ status' = IF Len(stack) = 1 THEN "exited" ELSE status
    /\ exitcode' = IF Len(stack) = 1 THEN 0 ELSE exitcode
    /\ UNCHANGED <<exc, escaped, loadFailed>>

\* history of load_cfgfile before the first load: read is the content of the
\* most recent successful read, good the value assigned by the last completed
\* load, clean the frames whose read content is still that of the file (no
\* change since the read), run the number (up to 2) of completed loads in a
\* row with no change of the file since the read of the first of them
NoLoads == [read |-> <<>>, good |-> <<>>, clean |-> {}, run |-> 0]

----------------------------------------------------------------------------
(* Construction *)

\* the state after CmdlApp.__init__, before run()
Constructed(a) ==
    /\ attrs = a
    /\ args = <<>>
    /\ cfg = <<>>
    /\ sigdisp = "SIG_DFL"
    /\ loglevel = "unset"
    /\ log = <<>>
    /\ stack = <<>>
    /\ status = "init"
    /\ exitcode = 0
    /\ exc = <<>>
    /\ escaped = {}
    /\ mainCalls = 0
    /\ call = <<>>
    /\ steps = <<>>
    /\ loadFailed = {}
    /\ nNoop = 0
    /\ nHup = 0
    /\ nInt = 0
    /\ sys_argv = <<>>
    /\ loads = NoLoads

\* a configure() call of a constructor: an invalid key ends the construction
\* with the ValueError
ConstructorConfigure ==
    /\ status = "init"
    /\ \E keys \in KwOrders : \E given \in KwGiven(keys) :
          LET r == configure(attrs, keys, given) IN
          /\ attrs' = r.attrs
          /\ call' = <<[keys |-> keys, given |-> given]>>
          /\ exc' = r.raised
          /\ status' = IF r.raised = <<>> THEN "init" ELSE "exited"
          /\ exitcode' = IF r.raised = <<>> THEN exitcode ELSE ExitStatus(r.raised[1])
    /\ UNCHANGED <<args, cfg, sigdisp, loglevel, log, file, stack, escaped,
                   mainCalls, nHup, nInt, steps, loadFailed, nNoop,
                   sys_argv, hook, loads>>

----------------------------------------------------------------------------
(* run() *)

\* the command lines tried: each of --verbose and --cfg given or not
Argv == SUBSET {"-v", "-c"}

\* setup_args: the options the parser accepts
setup_args(self) ==
    {"-v", "-l"} \cup (IF self.has_cfgfile = TRUE THEN {"-c"} ELSE {})

\* as parse_args, but with --cfg not required
parse_args_cfg_optional(self, argv) ==
    IF argv \subseteq setup_args(self)
    THEN <<[verbose |-> "-v" \in argv,
            logfile |-> IF "-l" \in argv THEN <<"tool.log">> ELSE <<>>,
            cfg |-> IF "-c" \in argv THEN <<"cfg.yaml">> ELSE <<>>]>>
    ELSE <<>>

\* parse_args: the namespace, or <<>> when argparse exits with status 2
parse_args(self, argv) ==
    IF argv \subseteq setup_args(self) /\ (self.has_cfgfile = TRUE => "-c" \in argv)
    THEN <<[verbose |-> "-v" \in argv,
            logfile |-> IF "-l" \in argv THEN <<"tool.log">> ELSE <<>>,
            cfg |-> IF "-c" \in argv THEN <<"cfg.yaml">> ELSE <<>>]>>
    ELSE <<>>

Run ==
    /\ status = "init"
    /\ status' = "running"
    /\ stack' = <<Frame("run", "parse", <<>>)>>
    /\ UNCHANGED <<attrs, args, cfg, sigdisp, loglevel, log, file, exitcode, exc,
                   escaped, mainCalls, nHup, nInt, call, steps, loadFailed, nNoop,
                   sys_argv, hook, loads>>

AtRun(pc) == status = "running" /\ Top.fn = "run" /\ Top.pc = pc

ParseArgs ==
    /\ AtRun("parse")
    /\ \E argv \in Argv :
          LET ns == parse_args(attrs, argv) IN
          /\ sys_argv' = <<argv>>
          /\ IF ns # <<>>
             THEN /\ args' = ns
                  /\ stack' = SetPc(stack, "setup_logging")
                  /\ steps' = Append(steps, "parse_args")
                  /\ UNCHANGED <<log, status, exitcode, exc, escaped, loadFailed, loads>>
             ELSE /\ Raise(SystemExit("2"), log)
                  /\ UNCHANGED <<args, steps>>
    /\ UNCHANGED <<attrs, cfg, sigdisp, loglevel, file, mainCalls, nHup, nInt,
                   call, nNoop, hook>>

\* setup_logging: the threshold, and the name the level message gives it
setup_logging(ns) ==
    IF ns.verbose THEN [level |-> "DEBUG", levelname |-> "debug"]
    ELSE [level |-> "INFO", levelname |-> "warning"]

\* as SetupLogging, but without the call of logging.basicConfig
SetupLogging_no_basicConfig ==
    /\ AtRun("setup_logging")
    /\ LET l == setup_logging(args[1]) IN
       /\ loglevel' = loglevel
       /\ log' = info(info(log, loglevel, "starting.", <<attrs.tool_name, attrs.tool_version>>),
                      loglevel, "Logging system initialized to level", <<l.levelname>>)
    /\ stack' = SetPc(stack, "register")
    /\ steps' = Append(steps, "setup_logging")
    /\ UNCHANGED <<attrs, args, cfg, sigdisp, file, status, exitcode, exc, escaped,
                   mainCalls, nHup, nInt, call, loadFailed, nNoop,
                   sys_argv, hook, loads>>

\* setup_logging: basicConfig, then the banner and the level message
SetupLogging ==
    /\ AtRun("setup_logging")
    /\ LET l == setup_logging(args[1]) IN
       /\ loglevel' = l.level
       /\ log' = info(info(log, l.level, "starting.", <<attrs.tool_name, attrs.tool_version>>),
                      l.level, "Logging system initialized to level", <<l.levelname>>)
    /\ stack' = SetPc(stack, "register")
    /\ steps' = Append(steps, "setup_logging")
    /\ UNCHANGED <<attrs, args, cfg, sigdisp, file, status, exitcode, exc, escaped,
                   mainCalls, nHup, nInt, call, loadFailed, nNoop,
                   sys_argv, hook, loads>>

Register ==
    /\ AtRun("register")
    /\ sigdisp' = IF attrs.reload_on_hup THEN "sighup_handler" ELSE sigdisp
    /\ stack' = SetPc(stack, "cfgfile")
    /\ steps' = IF attrs.reload_on_hup THEN Append(steps, "register") ELSE steps
    /\ UNCHANGED <<attrs, args, cfg, loglevel, log, file, status, exitcode, exc,
                   escaped, mainCalls, nHup, nInt, call, loadFailed, nNoop,
                   sys_argv, hook, loads>>

\* as CheckCfgfile, but never loading the config file
CheckCfgfile_skip_load ==
    /\ AtRun("cfgfile")
    /\ stack' = SetPc(stack, "main_call")
    /\ UNCHANGED <<attrs, args, cfg, sigdisp, loglevel, log, file, status, exitcode,
                   exc, escaped, mainCalls, nHup, nInt, call, steps, loadFailed, nNoop,
                   sys_argv, hook, loads>>

CheckCfgfile ==
    /\ AtRun("cfgfile")
    /\ stack' = SetPc(stack, IF attrs.has_cfgfile THEN "load_log" ELSE "main_call")
    /\ UNCHANGED <<attrs, args, cfg, sigdisp, loglevel, log, file, status, exitcode,
                   exc, escaped, mainCalls, nHup, nInt, call, steps, loadFailed, nNoop,
                   sys_argv, hook, loads>>

MainCall ==
    /\ AtRun("main_call")
    /\ mainCalls' = mainCalls + 1
    /\ steps' = Append(steps, "main_fct")
    /\ stack' = SetPc(stack, "main")
    /\ UNCHANGED <<attrs, args, cfg, sigdisp, loglevel, log, file, status, exitcode,
                   exc, escaped, nHup, nInt, call, loadFailed, nNoop,
                   sys_argv, hook, loads>>

----------------------------------------------------------------------------
(* load_cfgfile, called by run() and by on_reload() *)

InLoad(pc) == status = "running" /\ Top.pc = pc

LoadLog ==
    /\ InLoad("load_log")
    /\ IF args[1].cfg = <<>>
       THEN Raise(AttributeError("cfg"), log)
       ELSE /\ log' = info(log, loglevel, "Loading config file", args[1].cfg)
            /\ stack' = SetPc(stack, "load_read")
            /\ UNCHANGED <<status, exitcode, exc, escaped, loadFailed, loads>>
    /\ UNCHANGED <<attrs, args, cfg, sigdisp, loglevel, file, mainCalls, nHup,
                   nInt, call, steps, nNoop, sys_argv, hook>>

\* open() and yaml.load(): the document, or an exception inside the try block
LoadRead ==
    /\ InLoad("load_read")
    /\ IF file.kind = "yaml"
       THEN /\ stack' = [stack EXCEPT ![Len(stack)] = Frame(Top.fn, "load_assign", <<file.doc>>)]
            /\ loads' = [loads EXCEPT !.read = <<file.doc>>, !.clean = @ \cup {Len(stack)}]
            /\ UNCHANGED <<log, status, exitcode, exc, escaped, loadFailed>>
       ELSE Raise(LoadError(file.kind), log)
    /\ UNCHANGED <<attrs, args, cfg, sigdisp, loglevel, file, mainCalls, nHup,
                   nInt, call, steps, nNoop, sys_argv, hook>>

\* the frame after load_cfgfile returned to its caller: run() goes on to call
\* main_fct, the handler returns
AfterLoad(st) ==
    IF st[Len(st)].fn = "run"
    THEN [st EXCEPT ![Len(st)] = Frame("run", "main_call", <<>>)]
    ELSE Pop(st)

\* the update of the history at the assignment of load_cfgfile
LoadDone(l, depth, val) ==
    [l EXCEPT !.good = val,
              !.clean = @ \ {depth},
              !.run = IF depth \notin l.clean THEN 0 ELSE IF @ < 2 THEN @ + 1 ELSE 2]

\* as LoadAssign, but adding the document read to the config already held
LoadAssign_accumulate ==
    /\ InLoad("load_assign")
    /\ cfg' = IF cfg = <<>> THEN Top.val ELSE <<cfg[1] + Top.val[1]>>
    /\ stack' = AfterLoad(stack)
    /\ steps' = IF Top.fn = "run" THEN Append(steps, "load_cfgfile") ELSE steps
    /\ loads' = LoadDone(loads, Len(stack), Top.val)
    /\ UNCHANGED <<attrs, args, sigdisp, loglevel, log, file, status, exitcode, exc,
                   escaped, mainCalls, nHup, nInt, call, loadFailed, nNoop,
                   sys_argv, hook>>

\* as LoadAssign, but updating the config already held with the document read
\* instead of replacing it: the result mixes the old and the new document
LoadAssign_update_in_place ==
    /\ InLoad("load_assign")
    /\ cfg' = IF cfg = <<>> \/ cfg = Top.val THEN Top.val
              ELSE <<Top.val[1] + NumDocs * cfg[1]>>
    /\ stack' = AfterLoad(stack)
    /\ steps' = IF Top.fn = "run" THEN Append(steps, "load_cfgfile") ELSE steps
    /\ loads' = LoadDone(loads, Len(stack), Top.val)
    /\ UNCHANGED <<attrs, args, sigdisp, loglevel, log, file, status, exitcode, exc,
                   escaped, mainCalls, nHup, nInt, call, loadFailed, nNoop,
                   sys_argv, hook>>

\* self.cfg = yaml.load(f), and load_cfgfile returns
LoadAssign ==
    /\ InLoad("load_assign")
    /\ cfg' = Top.val
    /\ stack' = AfterLoad(stack)
    /\ steps' = IF Top.fn = "run" THEN Append(steps, "load_cfgfile") ELSE steps
    /\ loads' = LoadDone(loads, Len(stack), Top.val)
    /\ UNCHANGED <<attrs, args, sigdisp, loglevel, log, file, status, exitcode, exc,
                   escaped, mainCalls, nHup, nInt, call, loadFailed, nNoop,
                   sys_argv, hook>>

\* as LoadExcept, but without the sys.exit(1): load_cfgfile returns
LoadExcept_no_exit ==
    /\ InLoad("load_except")
    /\ log' = error(log, loglevel, "Failed to load config file", args[1].cfg)
    /\ stack' = AfterLoad(stack)
    /\ UNCHANGED <<attrs, args, cfg, sigdisp, loglevel, file, status, exitcode, exc,
                   escaped, mainCalls, nHup, nInt, call, steps, loadFailed, nNoop,
                   sys_argv, hook, loads>>

\* as LoadExcept, but clearing the config before the exit
LoadExcept_clear_cfg ==
    /\ InLoad("load_except")
    /\ cfg' = <<>>
    /\ Raise(SystemExit("1"),
             IF args[1].verbose
             THEN exception(log, loglevel, "Failed to load config file", args[1].cfg)
             ELSE error(log, loglevel, "Failed to load config file", args[1].cfg))
    /\ UNCHANGED <<attrs, args, sigdisp, loglevel, file, mainCalls, nHup,
                   nInt, call, steps, nNoop, sys_argv, hook>>

\* the bare except clause: the message, then sys.exit(1)
LoadExcept ==
    /\ InLoad("load_except")
    /\ Raise(SystemExit("1"),
             IF args[1].verbose
             THEN exception(log, loglevel, "Failed to load config file", args[1].cfg)
             ELSE error(log, loglevel, "Failed to load config file", args[1].cfg))
    /\ UNCHANGED <<attrs, args, cfg, sigdisp, loglevel, file, mainCalls, nHup,
                   nInt, call, steps, nNoop, sys_argv, hook>>

----------------------------------------------------------------------------
(* main_fct *)

\* CmdlApp.main_fct: one message, and it returns
MainDefault ==
    /\ AtRun("main")
    /\ attrs.main_fct = "CmdlApp.main_fct"
    /\ Return(info(log, loglevel, "Called the default main function implementation.", <<>>))
    /\ UNCHANGED <<attrs, args, cfg, sigdisp, loglevel, file, mainCalls, nHup,
                   nInt, call, steps, nNoop,
                   sys_argv, hook, loads>>

\* the keyword mappings the work function of a subclass passes to configure()
MainKwOrders == {<<"reload_on_hup">>, <<"use_cfgfile">>}

\* the work function of a subclass calls self.configure(...)
MainConfigure ==
    /\ AtRun("main")
    /\ attrs.main_fct # "CmdlApp.main_fct"
    /\ \E keys \in MainKwOrders : \E given \in KwGiven(keys) :
          LET r == configure(attrs, keys, given) IN
          /\ attrs' = r.attrs
          /\ call' = <<[keys |-> keys, given |-> given]>>
          /\ IF r.raised = <<>>
             THEN UNCHANGED <<log, stack, status, exitcode, exc, escaped, loadFailed, loads>>
             ELSE Raise(r.raised[1], log)
    /\ UNCHANGED <<args, cfg, sigdisp, loglevel, file, mainCalls, nHup, nInt,
                   steps, nNoop, sys_argv, hook>>

\* the signal numbers sighup_handler is called with besides SIGHUP
OtherSignals == {"SIGUSR1"}

\* the work function of a subclass calls self.sighup_handler(sig, None) with
\* a signal number other than SIGHUP
MainCallsHandler ==
    /\ AtRun("main")
    /\ attrs.main_fct # "CmdlApp.main_fct"
    /\ \E sig \in OtherSignals :
          stack' = Append(stack, Frame("sighup_handler", "handler", <<sig>>))
    /\ UNCHANGED <<attrs, args, cfg, sigdisp, loglevel, log, file, status, exitcode,
                   exc, escaped, mainCalls, nHup, nInt, call, steps, loadFailed, nNoop,
                   sys_argv, hook, loads>>

\* the work function of a subclass reads self.cfg into a local variable; the
\* attribute does not exist before the first load
MainRead ==
    /\ AtRun("main")
    /\ attrs.main_fct # "CmdlApp.main_fct"
    /\ IF cfg = <<>>
       THEN Raise(AttributeError("cfg"), log)
       ELSE /\ stack' = [stack EXCEPT ![1].val = cfg]
            /\ UNCHANGED <<log, status, exitcode, exc, escaped, loadFailed, loads>>
    /\ UNCHANGED <<attrs, args, cfg, sigdisp, loglevel, file, mainCalls, nHup,
                   nInt, call, steps, nNoop, sys_argv, hook>>

\* the work function of a subclass raises
MainRaise ==
    /\ AtRun("main")
    /\ attrs.main_fct # "CmdlApp.main_fct"
    /\ \E e \in UserExceptions : Raise(e, log)
    /\ UNCHANGED <<attrs, args, cfg, sigdisp, loglevel, file, mainCalls, nHup,
                   nInt, call, steps, nNoop, sys_argv, hook>>

\* the work function of a subclass returns
MainReturn ==
    /\ AtRun("main")
    /\ attrs.main_fct # "CmdlApp.main_fct"
    /\ Return(log)
    /\ UNCHANGED <<attrs, args, cfg, sigdisp, loglevel, file, mainCalls, nHup,
                   nInt, call, steps, nNoop,
                   sys_argv, hook, loads>>

----------------------------------------------------------------------------
(* Signals *)

\* SIGHUP is delivered: the registered handler is entered on top of the
\* current frame; with the default disposition the process is terminated
Sighup ==
    /\ status = "running"
    /\ nHup < MaxHup
    /\ nHup' = nHup + 1
    /\ IF sigdisp = "sighup_handler"
       THEN /\ stack' = Append(stack, Frame("sighup_handler", "handler", <<"SIGHUP">>))
            /\ UNCHANGED status
       ELSE /\ stack' = <<>>
            /\ status' = "killed"
    /\ UNCHANGED <<attrs, args, cfg, sigdisp, loglevel, log, file, exitcode, exc,
                   escaped, mainCalls, nInt, call, steps, loadFailed, nNoop,
                   sys_argv, hook, loads>>

InHandler(pc) == status = "running" /\ Top.fn = "sighup_handler" /\ Top.pc = pc

\* as SighupHandler, but testing reload_on_hup only, whatever the signal is
SighupHandler_any_signal ==
    /\ InHandler("handler")
    /\ IF attrs.reload_on_hup
       THEN /\ stack' = SetPc(stack, "on_reload")
            /\ UNCHANGED <<log, status, exitcode, exc, escaped, loadFailed, nNoop>>
       ELSE /\ Return(log)
            /\ nNoop' = IF Top.val = <<"SIGHUP">> THEN nNoop + 1 ELSE nNoop
    /\ UNCHANGED <<attrs, args, cfg, sigdisp, loglevel, file, mainCalls, nHup,
                   nInt, call, steps,
                   sys_argv, hook, loads>>

\* sighup_handler: the test of the signal number and of reload_on_hup; the
\* else branch ignores the signal
SighupHandler ==
    /\ InHandler("handler")
    /\ IF Top.val = <<"SIGHUP">> /\ attrs.reload_on_hup
       THEN /\ stack' = SetPc(stack, "on_reload")
            /\ UNCHANGED <<log, status, exitcode, exc, escaped, loadFailed, nNoop>>
       ELSE /\ Return(log)
            /\ nNoop' = IF Top.val = <<"SIGHUP">> THEN nNoop + 1 ELSE nNoop
    /\ UNCHANGED <<attrs, args, cfg, sigdisp, loglevel, file, mainCalls, nHup,
                   nInt, call, steps,
                   sys_argv, hook, loads>>

\* as OnReload, but without the message
OnReload_no_message ==
    /\ InHandler("on_reload")
    /\ hook = "CmdlApp.on_reload"
    /\ IF attrs.reload_on_hup
       THEN /\ stack' = SetPc(stack, "load_log")
            /\ UNCHANGED <<log, status, exitcode, exc, escaped, loadFailed, nNoop>>
       ELSE Return(log) /\ nNoop' = nNoop + 1
    /\ UNCHANGED <<attrs, args, cfg, sigdisp, loglevel, file, mainCalls, nHup, nInt,
                   call, steps,
                   sys_argv, hook, loads>>

\* as OnReload, but returning after the message, without calling load_cfgfile
OnReload_no_load ==
    /\ InHandler("on_reload")
    /\ hook = "CmdlApp.on_reload"
    /\ Return(IF attrs.reload_on_hup
              THEN info(log, loglevel, "Reloading configuration due to SIGHUP signal.", <<>>)
              ELSE log)
    /\ nNoop' = IF attrs.reload_on_hup THEN nNoop ELSE nNoop + 1
    /\ UNCHANGED <<attrs, args, cfg, sigdisp, loglevel, file, mainCalls, nHup,
                   nInt, call, steps,
                   sys_argv, hook, loads>>

\* CmdlApp.on_reload: the message, then load_cfgfile
OnReload ==
    /\ InHandler("on_reload")
    /\ hook = "CmdlApp.on_reload"
    /\ IF attrs.reload_on_hup
       THEN /\ log' = info(log, loglevel, "Reloading configuration due to SIGHUP signal.", <<>>)
            /\ stack' = SetPc(stack, "load_log")
            /\ UNCHANGED <<status, exitcode, exc, escaped, loadFailed, nNoop>>
       ELSE Return(log) /\ nNoop' = nNoop + 1
    /\ UNCHANGED <<attrs, args, cfg, sigdisp, loglevel, file, mainCalls, nHup,
                   nInt, call, steps,
                   sys_argv, hook, loads>>

\* on_reload as overridden by a subclass that does not call the method of
\* CmdlApp: the body of the subclass runs and returns to sighup_handler, which
\* returns
OnReloadOverride ==
    /\ InHandler("on_reload")
    /\ hook = "Subclass.on_reload"
    /\ Return(log)
    /\ UNCHANGED <<attrs, args, cfg, sigdisp, loglevel, file, mainCalls, nHup,
                   nInt, call, steps, nNoop,
                   sys_argv, hook, loads>>

\* SIGINT is delivered while main_fct is executing (the user interrupt of
\* run()'s try statement): KeyboardInterrupt is raised in the top frame
Sigint ==
    /\ status = "running"
    /\ stack[1].pc = "main"
    /\ nInt < MaxInt
    /\ nInt' = nInt + 1
    /\ Raise(KeyboardInterrupt, log)
    /\ UNCHANGED <<attrs, args, cfg, sigdisp, loglevel, file, mainCalls, nHup, call,
                   steps, nNoop, sys_argv, hook>>

\* the config file is rewritten, removed or created
ChangeFile ==
    /\ status = "running"
    /\ file' \in Files \ {file}
    /\ loads' = [loads EXCEPT !.clean = {}, !.run = 0]
    /\ UNCHANGED <<attrs, args, cfg, sigdisp, loglevel, log, stack, status, exitcode,
                   exc, escaped, mainCalls, nHup, nInt, call, steps, loadFailed, nNoop,
                   sys_argv, hook>>

----------------------------------------------------------------------------
(* Specifications *)

\* the tools run() is started on: what the constructors of CmdlApp and of a
\* subclass such as Example leave
Tools ==
    {a \in [main_fct : MainFcts, has_cfgfile : BOOLEAN, reload_on_hup : BOOLEAN,
            tool_name : {"CmdlAppExample"}, tool_version : {"0.1beta"}] : TRUE}

\* the on_reload method: the one of CmdlApp, or the override of a subclass
Hooks == {"CmdlApp.on_reload", "Subclass.on_reload"}

Init == /\ \E a \in Tools : Constructed(a)
        /\ file \in Files
        /\ hook \in Hooks
        \* on_reload is overridden by subclasses only, which define main_fct
        /\ hook = "Subclass.on_reload" => attrs.main_fct = "Subclass.main_fct"

Next ==
    \/ Run
    \/ ParseArgs
    \/ SetupLogging
    \/ Register
    \/ CheckCfgfile
    \/ MainCall
    \/ LoadLog
    \/ LoadRead
    \/ LoadAssign
    \/ LoadExcept
    \/ MainDefault
    \/ MainConfigure
    \/ MainCallsHandler
    \/ MainRead
    \/ MainRaise
    \/ MainReturn
    \/ Sighup
    \/ SighupHandler
    \/ OnReload
    \/ OnReloadOverride
    \/ Sigint
    \/ ChangeFile

Spec == Init /\ [][Next]_vars

\* the constructor alone: configure() calls on a fresh CmdlApp
InitConfigure ==
    /\ Constructed(DefaultAttrs)
    /\ file = [kind |-> "missing", doc |-> 0]
    /\ hook = "CmdlApp.on_reload"

NextConfigure == ConstructorConfigure

SpecConfigure == InitConfigure /\ [][NextConfigure]_vars

----------------------------------------------------------------------------
(* Properties of the run() lifecycle (Spec) *)

\* the steps of run(), in the order of its statements
RunSteps == <<"parse_args", "setup_logging", "register", "load_cfgfile", "main_fct">>

StepIndex(x) == CHOOSE i \in 1..Len(RunSteps) : RunSteps[i] = x

HandlerRunning == \E i \in 1..Len(stack) : stack[i].fn = "sighup_handler"

C1_StepsInOrder ==
    /\ \A i, j \in 1..Len(steps) : i < j => StepIndex(steps[i]) < StepIndex(steps[j])
    /\ mainCalls <= 1
    /\ HandlerRunning => {"parse_args", "setup_logging"} \subseteq Range(steps)

C1_MainAfterSetup ==
    mainCalls' > mainCalls =>
        /\ {"parse_args", "setup_logging"} \subseteq Range(steps)
        /\ args # <<>> /\ loglevel # "unset"
        /\ attrs.reload_on_hup <=> ("register" \in Range(steps) /\ sigdisp = "sighup_handler")
        /\ attrs.has_cfgfile <=> ("load_cfgfile" \in Range(steps) /\ cfg # <<>>)

\* C1: the steps of run() complete in the fixed order parse_args,
\* setup_logging, register (only with reload_on_hup), load_cfgfile (only with
\* has_cfgfile), main_fct; main_fct is invoked at most once and only when every
\* enabled earlier step has completed; no handler frame exists before argument
\* parsing and logging setup have completed.
C1_RunOrder == []C1_StepsInOrder /\ [][C1_MainAfterSetup]_vars

\* C1 witness: a run with both options on has gone through all five steps
C1_Witness == steps = RunSteps /\ mainCalls = 1

LoadFailedRecord(lg) ==
    \E i \in 1..Len(lg) : lg[i].level = "ERROR" /\ lg[i].msg = "Failed to load config file"

\* C2: once the initial load of run() has failed, main_fct is not invoked, the
\* main flow is left in the except clause of load_cfgfile, and when the process
\* exits it does so with status 1 and with the error message logged.
C2_StartupLoadFailure ==
    "run" \in loadFailed =>
        /\ mainCalls = 0
        /\ status = "running" => stack[1].pc = "load_except"
        /\ status = "exited" => exitcode = 1 /\ LoadFailedRecord(log)

\* C2 witness: the process has exited after a failed initial load
C2_Witness == "run" \in loadFailed /\ status = "exited" /\ nHup = 0

\* C3 (as claimed): when a load called by the reload handler has failed (no
\* user interrupt being involved), the process exits with status 1.
C3_ReloadFailureExits ==
    ("sighup_handler" \in loadFailed /\ nInt = 0 /\ status = "exited") => exitcode = 1

CountMsg(msg) == Cardinality({i \in 1..Len(log) : log[i].msg = msg})

\* the handler frames SIGHUP deliveries have entered that are at one of pcs
HandlersAt(pcs) ==
    Cardinality({i \in 1..Len(stack) :
                    /\ stack[i].fn = "sighup_handler" /\ stack[i].pc \in pcs
                    /\ stack[i].pc = "handler" => stack[i].val = <<"SIGHUP">>})

\* 1 when the initial load of run() has logged its message
StartupLoading ==
    IF stack[1].pc \in {"load_read", "load_assign", "load_except"} \/ "load_cfgfile" \in Range(steps)
    THEN 1 ELSE 0

\* a run with a config file and the handler registered, in which no exception
\* has been raised
C4_Pre ==
    /\ status = "running"
    /\ attrs.has_cfgfile
    /\ sigdisp = "sighup_handler"
    /\ hook = "CmdlApp.on_reload"
    /\ exc = <<>>

C4_EverySignalReloads ==
    C4_Pre =>
        /\ nHup = nNoop + CountMsg("Reloading configuration due to SIGHUP signal.")
                    + HandlersAt({"handler", "on_reload"})
        /\ CountMsg("Loading config file")
              = StartupLoading + CountMsg("Reloading configuration due to SIGHUP signal.")
                    - HandlersAt({"load_log"})
        /\ \A n \in 1..Len(log) :
              Cardinality({i \in 1..n : log[i].msg = "Loading config file"})
                 <= 1 + Cardinality({i \in 1..n :
                            log[i].msg = "Reloading configuration due to SIGHUP signal."})

C4_LoadSetsCfg ==
    /\ cfg' # cfg => Top.pc = "load_assign" /\ cfg' = Top.val
    /\ (status = "running" /\ Top.pc = "load_assign" /\ stack' = AfterLoad(stack))
          => cfg' = Top.val
    /\ \A i \in 1..Len(stack') :
          (stack'[i].pc = "load_assign" /\ (i > Len(stack) \/ stack[i].pc # "load_assign"))
             => file.kind = "yaml" /\ stack'[i].val = <<file.doc>>

\* C4: with a config file and the handler registered, as long as no exception
\* is raised, every delivered SIGHUP is a no-op of a disabled handler, is still
\* before its reload message, or has logged the reload message, and each
\* reload message is followed by one invocation of the loader; a load that
\* completes sets cfg to the document it read, which is the content of the file
\* at the time of the read.
C4_ReloadOnSignal == []C4_EverySignalReloads /\ [][C4_LoadSetsCfg]_vars

\* C4 witness: after the initial load, a SIGHUP has reloaded the changed file
\* and main_fct is running again
C4_Witness ==
    /\ C4_Pre
    /\ Len(stack) = 1 /\ stack[1].pc = "main"
    /\ nHup = 1 /\ nNoop = 0
    /\ CountMsg("Loading config file") = 2
    /\ file.kind = "yaml" /\ cfg = <<file.doc>>

\* reload_on_hup as it was when run() was called: the handler is registered,
\* or run() has not reached the registration yet and will register it
ReloadAtRun ==
    \/ sigdisp = "sighup_handler"
    \/ stack[1].pc \in {"parse", "setup_logging", "register"} /\ attrs.reload_on_hup

\* C5 (as claimed): with reload_on_hup false when run() was called, a delivered
\* SIGHUP leaves cfg as it is and the process running.
C5_NoReloadNoCrash ==
    [][(nHup' > nHup /\ ~ReloadAtRun) => (cfg' = cfg /\ status' = "running")]_vars

\* C6 (as claimed): the only exception that leaves sighup_handler is the
\* SystemExit of the loader (a KeyboardInterrupt passing through is the user's
\* interrupt, not the handler's).
C6_HandlerNeverThrows ==
    \A e \in escaped : e = SystemExit("1") \/ e.type = "KeyboardInterrupt"

\* C7: when the process exits after an exception other than KeyboardInterrupt
\* has propagated out of main_fct, run() has returned (exit status 0) and the
\* last log record is the 'Main function failed.' error with the traceback.
C7_MainFailureLogged ==
    (status = "exited" /\ mainCalls = 1 /\ exc # <<>> /\ exc[1].type # "KeyboardInterrupt")
        => /\ exitcode = 0
           /\ log # <<>>
           /\ log[Len(log)] = Record("ERROR", "Main function failed.", <<>>, TRUE)

\* C7 witness: main_fct raised an exception of its own and the process exited
C7_Witness ==
    /\ status = "exited"
    /\ mainCalls = 1
    /\ exc = <<[type |-> "Exception", arg |-> ""]>>

\* C8 (as claimed): when a KeyboardInterrupt has arrived while main_fct was
\* executing, the process exits with status 0 and the graceful termination
\* message as its last log record.
C8_InterruptGraceful ==
    (status = "exited" /\ nInt > 0)
        => /\ exitcode = 0
           /\ log # <<>>
           /\ log[Len(log)] = Record("INFO", "Terminating due to Ctrl-C. Good bye.", <<>>, FALSE)

\* the initial load of run() is executing (load_cfgfile called at line 147)
StartupLoadRunning ==
    status = "running" /\ stack[1].pc \in {"load_log", "load_read", "load_assign", "load_except"}

\* C11: a command line without --cfg is parsed successfully exactly when
\* has_cfgfile is false; when parsing fails the process exits with status 2
\* and nothing of run() after parse_args has happened (no logging setup, no
\* handler registered, no load, no main_fct); while the initial load of run()
\* executes, the parsed arguments hold a config path.
C11_CfgRequired ==
    /\ (sys_argv # <<>> /\ "-c" \notin sys_argv[1]) => (args # <<>> <=> ~attrs.has_cfgfile)
    /\ (sys_argv # <<>> /\ args = <<>>) =>
          /\ status = "exited" /\ exitcode = 2
          /\ steps = <<>> /\ loglevel = "unset" /\ log = <<>>
          /\ sigdisp = "SIG_DFL" /\ loads = NoLoads /\ cfg = <<>> /\ mainCalls = 0
    /\ StartupLoadRunning => args # <<>> /\ args[1].cfg # <<>>

\* C11 witness: with has_cfgfile set, the command line '-v' was refused
C11_Witness ==
    /\ attrs.has_cfgfile
    /\ sys_argv = <<{"-v"}>>
    /\ args = <<>>
    /\ status = "exited" /\ exitcode = 2

\* a load completes: the assignment of load_cfgfile is executed
LoadCompletes == status = "running" /\ Top.pc = "load_assign" /\ stack' = AfterLoad(stack)

C12_SameFileSameCfg == loads.run >= 1 => file.kind = "yaml" /\ cfg = <<file.doc>>

C12_SecondLoadKeepsCfg ==
    (LoadCompletes /\ loads.run >= 1 /\ Len(stack) \in loads.clean)
        => cfg' = cfg /\ loads'.run = 2

\* C12: when a load completes after another completed load and the file has
\* not changed since the earlier of their two reads, it leaves cfg at the value
\* the other load left; after such loads cfg is the document the file holds.
C12_LoadIdempotent == []C12_SameFileSameCfg /\ [][C12_SecondLoadKeepsCfg]_vars

\* C12 witness: the initial load and a reload by SIGHUP, with no change of the
\* file between them, have both completed
C12_Witness ==
    /\ loads.run = 2
    /\ steps = RunSteps
    /\ CountMsg("Reloading configuration due to SIGHUP signal.") = 1
    /\ CountMsg("Loading config file") = 2
    /\ Len(stack) = 1 /\ exc = <<>>

\* the top frame takes a step of its own: the step is neither the delivery
\* of a signal nor a change of the file
OwnStep == nHup' = nHup /\ nInt' = nInt /\ file' = file /\ stack' # stack

ReloadMsg == "Reloading configuration due to SIGHUP signal."

\* C13: sighup_handler tests the signal number and the current value of
\* reload_on_hup when it is invoked: called with a signal other than SIGHUP, or
\* with reload_on_hup false (also when the handler was registered and
\* configure() has cleared the flag since), it returns with the log, cfg and the
\* history of the loader as they were; otherwise it calls on_reload.
C13_GateAtSignalTime ==
    [][(status = "running" /\ Top.fn = "sighup_handler" /\ Top.pc = "handler" /\ OwnStep)
          => IF Top.val = <<"SIGHUP">> /\ attrs.reload_on_hup
             THEN stack' = SetPc(stack, "on_reload")
             ELSE /\ stack' = Pop(stack)
                  /\ log' = log /\ cfg' = cfg /\ loads' = loads
                  /\ status' = status /\ exc' = exc]_vars

\* C13 witness: the handler was registered, main_fct has set reload_on_hup to
\* false, and the SIGHUP delivered after that has returned from the handler
\* without a reload message
C13_Witness ==
    /\ sigdisp = "sighup_handler"
    /\ ~attrs.reload_on_hup
    /\ nHup = 1 /\ nNoop = 1
    /\ CountMsg(ReloadMsg) = 0
    /\ status = "running" /\ Len(stack) = 1 /\ exc = <<>>

\* the handler is executing the call self.on_reload(), reload being enabled
AtHook ==
    status = "running" /\ Top.fn = "sighup_handler" /\ Top.pc = "on_reload"
        /\ attrs.reload_on_hup

\* C14 (as claimed): whenever the handler has called the hook with reload
\* enabled, the config loader is invoked next, whatever the body of the hook.
C14_LoaderAfterAnyHook ==
    [][(AtHook /\ OwnStep) =>
          (Len(stack') = Len(stack) /\ stack'[Len(stack)].pc = "load_log")]_vars

\* C14 (amended): a handler that finds SIGHUP and reload enabled calls the
\* hook before anything is logged or loaded; the hook of CmdlApp logs the
\* reload message and then calls the loader; a hook overridden without a call
\* of the loader returns with cfg and the loader's history as they were; and a
\* handler frame enters the loader from the hook only.
C14_DefaultHookLoads ==
    [][/\ (status = "running" /\ Top.fn = "sighup_handler" /\ Top.pc = "handler"
              /\ Top.val = <<"SIGHUP">> /\ attrs.reload_on_hup /\ OwnStep)
            => (stack' = SetPc(stack, "on_reload") /\ log' = log /\ loads' = loads
                  /\ cfg' = cfg)
       /\ (AtHook /\ OwnStep) =>
             IF hook = "CmdlApp.on_reload"
             THEN /\ stack' = SetPc(stack, "load_log")
                  /\ log' = info(log, loglevel, ReloadMsg, <<>>)
             ELSE /\ stack' = Pop(stack)
                  /\ log' = log /\ cfg' = cfg /\ loads' = loads
       /\ \A i \in 1..Len(stack') :
             (stack'[i].fn = "sighup_handler" /\ stack'[i].pc = "load_log"
                 /\ (i > Len(stack) \/ stack[i].pc # "load_log"))
               => (i = Len(stack) /\ stack[i].pc = "on_reload"
                     /\ hook = "CmdlApp.on_reload")]_vars

\* C14 witness: with reload enabled and the hook overridden, a SIGHUP has been
\* handled and the handler has returned without a reload message or a load
C14_Witness ==
    /\ hook = "Subclass.on_reload"
    /\ attrs.has_cfgfile /\ attrs.reload_on_hup /\ sigdisp = "sighup_handler"
    /\ nHup = 1 /\ nNoop = 0
    /\ status = "running" /\ Len(stack) = 1 /\ stack[1].pc = "main" /\ exc = <<>>
    /\ call = <<>>
    /\ CountMsg(ReloadMsg) = 0 /\ CountMsg("Loading config file") = 1

\* the number of times setup_logging has applied the logging configuration
NumBasicConfig == Cardinality({i \in 1..Len(steps) : steps[i] = "setup_logging"})

\* the statements of run() after setup_logging, at which run(), the loader or
\* main_fct log
AfterSetupPcs ==
    {"register", "cfgfile", "load_log", "load_read", "load_assign", "load_except",
     "main_call", "main"}

C15_ConfiguredBeforeLogging ==
    /\ NumBasicConfig <= 1
    /\ NumBasicConfig = 1 <=> loglevel # "unset"
    /\ log # <<>> =>
          /\ NumBasicConfig = 1
          /\ log[1] = Record("INFO", "starting.", <<attrs.tool_name, attrs.tool_version>>, FALSE)
    /\ (status = "running" /\ (stack[1].pc \in AfterSetupPcs \/ HandlerRunning))
          => NumBasicConfig = 1
    /\ (status = "exited" /\ args # <<>>) => NumBasicConfig = 1

C15_FirstRecordBySetup ==
    (log' # log /\ loglevel = "unset") =>
        /\ AtRun("setup_logging")
        /\ steps' = Append(steps, "setup_logging")
        /\ loglevel' # "unset"

\* C15: the logging configuration is never applied twice; it has been applied
\* (once) whenever run() is past setup_logging, a handler is running, a record
\* is in the log, or the process has exited after its command line was
\* accepted; the first record of the log is the startup banner, and the only
\* step that logs while logging is not configured is setup_logging itself,
\* which configures it first.
C15_LoggingSetupOnce == []C15_ConfiguredBeforeLogging /\ [][C15_FirstRecordBySetup]_vars

\* C15 witness: a reload by SIGHUP has logged its messages, after the banner
\* and the level message of the one logging setup
C15_Witness ==
    /\ NumBasicConfig = 1
    /\ Len(log) >= 4
    /\ log[2].msg = "Logging system initialized to level"
    /\ CountMsg(ReloadMsg) = 1
    /\ CountMsg("Loading config file") = 2

\* the name of a threshold as the level message writes it
LevelName(level) ==
    CASE level = "DEBUG" -> "debug"
      [] level = "INFO" -> "info"
      [] level = "WARNING" -> "warning"
      [] OTHER -> "error"

\* C16 (as claimed): once logging is set up, the banner and the level message
\* are the first two records of the log, whatever the verbose flag, and the
\* level message names the threshold that basicConfig was given.
C16_LevelMessageNamesThreshold ==
    loglevel # "unset" =>
        /\ Len(log) >= 2
        /\ log[1] = Record("INFO", "starting.", <<attrs.tool_name, attrs.tool_version>>, FALSE)
        /\ log[2].level = "INFO" /\ log[2].msg = "Logging system initialized to level"
        /\ log[2].arg = <<LevelName(loglevel)>>

\* the documents a well-formed file can hold, as values of self.cfg
WholeDocs == {<<d>> : d \in Docs}

\* main_fct is executing and holds the config it read in a local variable
MainHolds == status = "running" /\ stack[1].pc = "main" /\ stack[1].val # <<>>

C17_OnlyWholeDocs ==
    /\ cfg \in {<<>>} \cup WholeDocs
    /\ MainHolds => stack[1].val \in WholeDocs

C17_ReplacedOrRead ==
    /\ cfg' # cfg => (LoadCompletes /\ cfg' = Top.val /\ cfg' \in WholeDocs)
    /\ (status = "running" /\ stack[1].pc = "main" /\ status' = "running"
           /\ stack'[1].val # stack[1].val)
         => (Len(stack) = 1 /\ stack'[1].val = cfg /\ cfg' = cfg)

\* C17: cfg is unset or one whole document of the file at any time; it changes
\* only in the assignment that completes a load, to the document that load
\* read; what main_fct holds after reading self.cfg is the value cfg had at
\* the read, and reloads that follow replace cfg without touching what
\* main_fct holds.
C17_WholesaleReplace == []C17_OnlyWholeDocs /\ [][C17_ReplacedOrRead]_vars

\* C17 witness: main_fct has read document 1, and a reload by SIGHUP has then
\* replaced cfg by document 2
C17_Witness ==
    /\ MainHolds /\ Len(stack) = 1
    /\ stack[1].val = <<1>>
    /\ cfg = <<2>>
    /\ nHup = 1 /\ CountMsg(ReloadMsg) = 1

\* every load that was started has completed: run() is past its initial load,
\* no handler is running, and no load has failed or been aborted
AllLoadsCompleted ==
    /\ status = "running"
    /\ Len(stack) = 1 /\ stack[1].pc \in {"main_call", "main"}
    /\ exc = <<>> /\ loadFailed = {}

\* C18 (as claimed): once every load that was started has completed, cfg is
\* the document read by the load that read the file last, also when loads
\* have overlapped.
C18_NoStaleOverwrite ==
    (AllLoadsCompleted /\ loads.read # <<>>) => cfg = loads.read

C19_CfgIsLastLoaded ==
    /\ cfg = loads.good
    /\ "run" \in loadFailed =>
          /\ "load_cfgfile" \notin Range(steps)
          /\ cfg # <<>> => (nHup > 0 /\ CountMsg(ReloadMsg) > 0)

C19_FailureKeepsCfg ==
    (\/ loadFailed' # loadFailed
     \/ exc' # exc
     \/ status = "running" /\ Top.pc = "load_except" /\ OwnStep)
        => cfg' = cfg

----------------------------------------------------------------------------
(* Properties of the configuration setter (SpecConfigure) *)

FirstInvalid(keys) == CHOOSE i \in 1..Len(keys) :
                          /\ keys[i] \notin cfg_keys
                          /\ \A j \in 1..(i - 1) : keys[j] \in cfg_keys

\* C9: a configure() call whose mapping holds recognized keys only raises
\* nothing, leaves every named attribute at exactly the given value and every
\* other recognized attribute as it was; since the calls follow each other in
\* any number, the last write wins.
C9_ConfigureApplies ==
    [][(call' # <<>> /\ Range(call'[1].keys) \subseteq cfg_keys) =>
          /\ exc' = <<>>
          /\ status' = status
          /\ \A k \in cfg_keys :
                attrs'[k] = IF k \in Range(call'[1].keys) THEN call'[1].given[k]
                            ELSE attrs[k]]_vars

\* C9 witness: the two configure() calls of Example.__init__ have been made
C9_Witness ==
    /\ call # <<>>
    /\ call[1].keys = <<"has_cfgfile", "reload_on_hup">>
    /\ attrs = [main_fct |-> "CmdlApp.main_fct", has_cfgfile |-> FALSE,
                reload_on_hup |-> TRUE, tool_name |-> "CmdlAppExample",
                tool_version |-> "0.1beta"]
    /\ status = "init"

====
